---- MODULE Spec2Model ----
(* Model of bittensor/_synapse/dendrite.py (ForwardCall, Dendrite) and        *)
(* bittensor/_synapse/text_seq2seq/dendrite.py (TextSeq2SeqDendrite).         *)
(*                                                                            *)
(* One Dendrite, two ForwardCall objects, one asyncio event loop and a      *)
(* discrete non-decreasing clock standing for time.time().  Each statement   *)
(* group of async_forward is one action; a call gives up the event loop only *)
(* at the await of asyncio.wait_for.  Exceptions are values: a raise stores  *)
(* the exception as pending, the except clauses and the finally blocks are   *)
(* actions of their own.  Hooks of the concrete call type and the external   *)
(* collaborators (transport, signer, log sink) choose their outcome          *)
(* nondeterministically; synchronous hooks raise Exception subclasses only,  *)
(* a BaseException (asyncio.CancelledError) arrives at the await only.       *)
(* Taken as given: time.time() never steps back; to_forward_request_proto   *)
(* returns a payload other than None when it returns; the transport's reply  *)
(* is other than None.  Under Spec a ForwardCall is handed to async_forward  *)
(* once; SpecResubmit hands a returned ForwardCall to it again.              *)
EXTENDS Integers, Sequences, FiniteSets, TLC

(* ---------------------------------------------------------------- bounds *)
MaxTimeout == 1
MaxClock == 2
MaxResubmits == 1

(* two calls on the one Dendrite, numbered in the order they are built *)
Calls == {1, 2}
Timeouts == 1..MaxTimeout

(* ------------------------------------------------------------ the values *)
None == "None"
Success == "Success"
RequestSerializationException == "RequestSerializationException"
Timeout == "Timeout"
UnknownException == "UnknownException"
ReturnCodes == {Success, RequestSerializationException, Timeout, UnknownException}

UNAVAILABLE == "StatusCode.UNAVAILABLE"
DEADLINE_EXCEEDED == "StatusCode.DEADLINE_EXCEEDED"
StatusCodes == {UNAVAILABLE, DEADLINE_EXCEEDED}

Responses == {"P1", "P2"}
RequestProto == "request_proto"
SelfEndpoint == "endpoint"

(* str() of a number, as format() renders it inside a message *)
DecimalStr(n) == <<"0", "1", "2", "3", "4", "5", "6", "7", "8", "9">>[n + 1]

SuccessMessage == <<"Success">>

(* exceptions: class, str(e), and for grpc.RpcError code() and details() *)
NoExc == [cls |-> "none", detail |-> "", code |-> "", details |-> ""]
Raise(cls, detail) == [cls |-> cls, detail |-> detail, code |-> "", details |-> ""]
RpcError(code, details) ==
    [cls |-> "RpcError", detail |-> "rpc error", code |-> code, details |-> details]
TimeoutError == Raise("TimeoutError", "")
CancelledError == Raise("CancelledError", "")

(* str(e) *)
StrOf(e) == <<e.detail>>

(* isinstance(e, Exception): CancelledError derives from BaseException *)
IsException(e) == e.cls \notin {"none", "CancelledError"}
IsRpcError(e) == e.cls = "RpcError"
IsTimeoutError(e) == e.cls = "TimeoutError"

(* ------------------------------------------------------------ ForwardCall *)
(* the dataclass field defaults; the hand-written __init__ sets only timeout *)
(* and start_time, the rest stay at the class defaults                       *)
ForwardCall ==
    [ endpoint         |-> None,
      timeout          |-> 0,
      start_time       |-> 0,
      end_time         |-> 0,
      request_code     |-> Success,
      request_message  |-> SuccessMessage,
      response_code    |-> Success,
      response_message |-> SuccessMessage,
      request_proto    |-> None,
      response_proto   |-> None ]

(* ForwardCall.__init__( timeout ) *)
ForwardCallInit(timeout, now) ==
    [ForwardCall EXCEPT !.timeout = timeout, !.start_time = now]

(* shape descriptors of the concrete call type, when they do not raise *)
InputsShape == "inputs_shape"
OutputsShape == "outputs_shape"
(* the base class descriptors raise NotImplementedError *)
ShapeNotImplemented ==
    Raise("NotImplementedError",
          "process_forward_response_proto not implemented for this call type.")

(* --------------------------------------------------------------- Dendrite *)
DendriteClasses == {"Dendrite", "TextSeq2SeqDendrite"}

(* Dendrite.__str__ / TextSeq2SeqDendrite.__str__ *)
SynapseName(cls) == IF cls = "TextSeq2SeqDendrite" THEN "TextSeq2Seq" ELSE "Dendrite"

(* Dendrite._stub_callable: calling the constant NotImplemented is a TypeError; *)
(* TextSeq2SeqDendrite._stub_callable returns the stub                          *)
StubCallableRaises(cls) == cls = "Dendrite"
StubCallableError == Raise("TypeError", "'NotImplementedType' object is not callable")

(* parameter names of the two methods of the synchronous chain, and the     *)
(* keyword each call site passes                                             *)
ForwardParams == {"call_state"}
AsyncForwardParams == {"forward_call"}
ForwardKeyword == "forward_call"
AsyncForwardKeyword == "call_state"
(* Python's keyword binding: a keyword that names no parameter is a TypeError *)
BindsKeyword(params, kw) == kw \in params
UnexpectedKeyword(kw) == Raise("TypeError", kw)

(* Faulty variants of the operators below, each with one plausible slip;   *)
(* the properties at the end of the module must tell them from the code.    *)
(* the encoded request is not stored *)
StoreRequestProtoDropped(fc, proto) == fc
(* the reply is not stored *)
StoreResponseProtoDropped(fc, proto) == fc
(* storing the reply also marks the response successful *)
StoreResponseProtoMarksSuccess(fc, proto) ==
    [fc EXCEPT !.response_proto = proto, !.response_code = Success]
(* the request-phase handler records the message but not the code *)
OnRequestExceptionKeepsCode(fc, e) == [fc EXCEPT !.request_message = StrOf(e)]
(* the response-phase handlers without the grpc.RpcError clause *)
ExceptClausesWithoutRpcClause(fc, e) ==
    IF IsTimeoutError(e)
    THEN [fc EXCEPT !.response_code = Timeout,
                    !.response_message =
                        <<"GRPC request timeout after: ", DecimalStr(fc.timeout), "s">>]
    ELSE IF IsException(e)
    THEN [fc EXCEPT !.response_code = UnknownException,
                    !.response_message = StrOf(e)]
    ELSE fc
(* the asyncio.TimeoutError clause records the message but not the code *)
ExceptClausesTimeoutKeepsCode(fc, e) ==
    IF IsRpcError(e)
    THEN [fc EXCEPT !.response_code = e.code,
                    !.response_message =
                        <<"GRPC error code: ", e.code, ", details: ", e.details>>]
    ELSE IF IsTimeoutError(e)
    THEN [fc EXCEPT !.response_message =
                        <<"GRPC request timeout after: ", DecimalStr(fc.timeout), "s">>]
    ELSE IF IsException(e)
    THEN [fc EXCEPT !.response_code = UnknownException,
                    !.response_message = StrOf(e)]
    ELSE fc

(* every assignment lands on one ForwardCall object shared by all calls *)
WriteCallShared(calls, c, fc) == [b \in DOMAIN calls |-> fc]

(* an assignment forward_call.<field> = ...: it lands on the ForwardCall    *)
(* object this invocation was given, and on nothing else                    *)
WriteCall(calls, c, fc) == [calls EXCEPT ![c] = fc]

(* forward_call.endpoint = self.endpoint *)
BindEndpoint(fc) == [fc EXCEPT !.endpoint = SelfEndpoint]

(* forward_call.request_proto = forward_call.to_forward_request_proto() *)
StoreRequestProto(fc, proto) == [fc EXCEPT !.request_proto = proto]

(* forward_call.response_proto = await asyncio.wait_for( ... ) *)
StoreResponseProto(fc, proto) == [fc EXCEPT !.response_proto = proto]

(* except Exception as e (request phase) *)
OnRequestException(fc, e) ==
    [fc EXCEPT !.request_code = RequestSerializationException,
               !.request_message = StrOf(e)]

(* 'GRPC error code: {}, details: {}'.format( code, str(details) ) *)
RpcErrorMessage(e) == <<"GRPC error code: ", e.code, ", details: ", e.details>>
(* 'GRPC request timeout after: {}s'.format( timeout ) *)
TimeoutMessage(timeout) == <<"GRPC request timeout after: ", DecimalStr(timeout), "s">>

(* faulty variant: no catch-all clause *)
ExceptClausesWithoutCatchAll(fc, e) ==
    IF IsRpcError(e)
    THEN [fc EXCEPT !.response_code = e.code,
                    !.response_message = RpcErrorMessage(e)]
    ELSE IF IsTimeoutError(e)
    THEN [fc EXCEPT !.response_code = Timeout,
                    !.response_message = TimeoutMessage(fc.timeout)]
    ELSE fc

(* the three except clauses of the response phase, in source order; an      *)
(* exception none of them matches leaves the call state as it is            *)
ExceptClauses(fc, e) ==
    IF IsRpcError(e)
    THEN [fc EXCEPT !.response_code = e.code,
                    !.response_message = RpcErrorMessage(e)]
    ELSE IF IsTimeoutError(e)
    THEN [fc EXCEPT !.response_code = Timeout,
                    !.response_message = TimeoutMessage(fc.timeout)]
    ELSE IF IsException(e)
    THEN [fc EXCEPT !.response_code = UnknownException,
                    !.response_message = StrOf(e)]
    ELSE fc
Caught(e) == IsException(e)

(* the record handed to bittensor.logging.rpc_log *)
RpcLog(is_response, code, call_time, inputs, outputs, message, synapse) ==
    [ is_response |-> is_response, code |-> code, call_time |-> call_time,
      inputs |-> inputs, outputs |-> outputs, message |-> message,
      synapse |-> synapse ]

(* faulty variant: wait_for gives up without waiting *)
WaitForExpiredAtOnce(fc, await_at, now) == TRUE
(* asyncio.wait_for: the deadline has passed for a wait begun at await_at *)
WaitForExpired(fc, await_at, now) == now - await_at >= fc.timeout
(* the transport's own per-call deadline, counted from the stub call *)
TransportExpired(fc, dispatch_at, now) == now - dispatch_at >= fc.timeout

(* faulty variant: the early exit is never taken *)
EarlyExitNever(fc) == FALSE
(* if forward_call.request_code != bittensor.proto.ReturnCode.Success *)
EarlyExitTaken(fc) == fc.request_code # Success

(* outputs = get_outputs_shape() if response_code == Success else None *)
OutputsShapeWanted(fc) == fc.response_code = Success

(* faulty variant: a timed-out call is dispatched again *)
AfterExceptRetriesTimeout(e) == IF IsTimeoutError(e) THEN "logged_request" ELSE "finally"
(* faulty variant: a transport error is followed by decode *)
AfterExceptDecodesRpcError(e) == IF IsRpcError(e) THEN "received" ELSE "finally"
(* where control goes when an except clause, or none, has handled e: the    *)
(* finally block, whatever e was                                            *)
AfterExcept(e) == "finally"

(* forward_call.end_time = time.time() *)
SetEndTime(fc, now) == [fc EXCEPT !.end_time = now]

(* ------------------------------------------------------------------ state *)
VARIABLES
    clock,      \* time.time()
    dendrite,   \* the class of self
    running,    \* the calls holding the event loop: {} or one call
    call,       \* call[c]: the ForwardCall object of call c
    pc,         \* pc[c]: where call c stands in forward / async_forward
    exc,        \* exc[c]: the exception in flight in call c
    fut,        \* fut[c]: the future the stub returned for call c
    log,        \* log[c]: the records rpc_log received from call c, this submission
    hist,       \* hist[c]: what call c has done so far (observation only)
    result      \* result[c]: how the entry point of call c ended

vars == <<clock, dendrite, running, call, pc, exc, fut, log, hist, result>>

NoFuture == [state |-> "none", value |-> None, exc |-> NoExc]
NoResult == [kind |-> "none", obj |-> 0, exc |-> NoExc]
Returned(c) == [kind |-> "returned", obj |-> c, exc |-> NoExc]
Raised(e) == [kind |-> "raised", obj |-> 0, exc |-> e]
NoHist ==
    [ via |-> "none", encode |-> "none", encode_exc |-> NoExc,
      stub_calls |-> 0, peer |-> "none", dispatch_at |-> 0, await_at |-> 0,
      in_try |-> FALSE, replied |-> None, raised |-> NoExc,
      decode_calls |-> 0, decode |-> "none", end_writes |-> 0,
      log_raised |-> NoExc, outputs_shape_calls |-> 0,
      resubmits |-> 0, prior |-> ForwardCall ]

(* failures the hooks and collaborators can raise *)
EncodeErrors ==
    { Raise("NotImplementedError",
            "process_forward_response_proto not implemented for this call type."),
      Raise("ValueError", "payload too large") }
DecodeError == Raise("ValueError", "malformed response")
SignError == Raise("KeyError", "no hotkey")
SinkError == Raise("OSError", "log sink failed")
ErrorDetails == {"peer unavailable"}

Init ==
    /\ clock = 1
    /\ dendrite \in DendriteClasses
    /\ running = {}
    /\ call = [c \in Calls |-> ForwardCall]
    /\ pc = [c \in Calls |-> "none"]
    /\ exc = [c \in Calls |-> NoExc]
    /\ fut = [c \in Calls |-> NoFuture]
    /\ log = [c \in Calls |-> <<>>]
    /\ hist = [c \in Calls |-> NoHist]
    /\ result = [c \in Calls |-> NoResult]

(* the entry point of call c ends: by return or by an exception reaching the *)
(* caller; the event loop is free again                                      *)
Exit(c, res) ==
    /\ pc' = [pc EXCEPT ![c] = "exited"]
    /\ result' = [result EXCEPT ![c] = res]
    /\ running' = {}

(* time passes; a tick is coarser than the synchronous stretches of a       *)
(* coroutine, which run between two ticks                                   *)
Tick ==
    /\ clock < MaxClock
    /\ running = {}
    /\ clock' = clock + 1
    /\ UNCHANGED <<dendrite, running, call, pc, exc, fut, log, hist, result>>

(* calls are numbered in the order they are built *)
InOrder(c) == \A b \in Calls : b < c => pc[b] # "none"

(* the caller builds a ForwardCall to hand to async_forward itself *)
Construct(c) ==
    /\ pc[c] = "none"
    /\ InOrder(c)
    /\ running = {}
    /\ \E t \in Timeouts : call' = WriteCall(call, c, ForwardCallInit(t, clock))
    /\ pc' = [pc EXCEPT ![c] = "constructed"]
    /\ hist' = [hist EXCEPT ![c].via = "async_forward"]
    /\ UNCHANGED <<clock, dendrite, running, exc, fut, log, result>>

(* TextSeq2SeqDendrite.forward: builds the call, then self._forward(          *)
(* forward_call = ... ), which in turn calls self.async_forward( call_state = *)
(* ... ); a keyword that binds no parameter raises TypeError at the call      *)
Forward(c) ==
    /\ pc[c] = "none"
    /\ InOrder(c)
    /\ running = {}
    /\ dendrite = "TextSeq2SeqDendrite"
    /\ \E t \in Timeouts : call' = WriteCall(call, c, ForwardCallInit(t, clock))
    /\ hist' = [hist EXCEPT ![c].via = "forward"]
    /\ IF ~BindsKeyword(ForwardParams, ForwardKeyword)
       THEN Exit(c, Raised(UnexpectedKeyword(ForwardKeyword)))
       ELSE IF ~BindsKeyword(AsyncForwardParams, AsyncForwardKeyword)
       THEN Exit(c, Raised(UnexpectedKeyword(AsyncForwardKeyword)))
       ELSE /\ pc' = [pc EXCEPT ![c] = "constructed"]
            /\ UNCHANGED <<running, result>>
    /\ UNCHANGED <<clock, dendrite, exc, fut, log>>

(* forward_call.endpoint = self.endpoint; the coroutine takes the event loop *)
Bind(c) ==
    /\ pc[c] = "constructed"
    /\ running = {}
    /\ running' = {c}
    /\ call' = WriteCall(call, c, BindEndpoint(call[c]))
    /\ pc' = [pc EXCEPT ![c] = "bound"]
    /\ UNCHANGED <<clock, dendrite, exc, fut, log, hist, result>>

(* try: request_proto = to_forward_request_proto()  except Exception as e *)
Encode(c) ==
    /\ pc[c] = "bound"
    /\ \/ /\ call' = WriteCall(call, c, StoreRequestProto(call[c], RequestProto))
          /\ hist' = [hist EXCEPT ![c].encode = "ok"]
       \/ \E e \in EncodeErrors :
            /\ call' = WriteCall(call, c, OnRequestException(call[c], e))
            /\ hist' = [hist EXCEPT ![c].encode = "failed", ![c].encode_exc = e]
    /\ pc' = [pc EXCEPT ![c] = "encoded"]
    /\ UNCHANGED <<clock, dendrite, running, exc, fut, log, result>>

(* finally: rpc_log( is_response = False, ... ) *)
RequestLog(c) ==
    RpcLog(FALSE, call[c].request_code, clock - call[c].start_time,
           IF call[c].request_code = Success THEN InputsShape ELSE None,
           None, call[c].request_message, SynapseName(dendrite))

LogRequest(c) ==
    /\ pc[c] = "encoded"
    /\ \/ \* get_inputs_shape raises while the arguments are evaluated
          /\ call[c].request_code = Success
          /\ Exit(c, Raised(ShapeNotImplemented))
          /\ hist' = [hist EXCEPT ![c].log_raised = ShapeNotImplemented]
          /\ UNCHANGED log
       \/ \* the sink raises
          /\ log' = [log EXCEPT ![c] = Append(@, RequestLog(c))]
          /\ hist' = [hist EXCEPT ![c].log_raised = SinkError]
          /\ Exit(c, Raised(SinkError))
       \/ /\ log' = [log EXCEPT ![c] = Append(@, RequestLog(c))]
          /\ pc' = [pc EXCEPT ![c] = "logged_request"]
          /\ UNCHANGED <<running, result, hist>>
    /\ UNCHANGED <<clock, dendrite, call, exc, fut>>

(* if request_code != Success: end_time = time.time(); return forward_call *)
EarlyExit(c) ==
    /\ pc[c] = "logged_request"
    /\ EarlyExitTaken(call[c])
    /\ call' = WriteCall(call, c, SetEndTime(call[c], clock))
    /\ hist' = [hist EXCEPT ![c].end_writes = @ + 1]
    /\ Exit(c, Returned(c))
    /\ UNCHANGED <<clock, dendrite, exc, fut, log>>

(* an exception raised inside the response try block: control goes to the   *)
(* except clauses                                                           *)
RaiseInTry(c, e) ==
    /\ exc' = [exc EXCEPT ![c] = e]
    /\ pc' = [pc EXCEPT ![c] = "except"]

(* asyncio_future = self._stub_callable()( request, timeout, metadata ):    *)
(* the callee is evaluated first, then the arguments (receptor.sign()),     *)
(* then the stub is called                                                  *)
Dispatch(c) ==
    /\ pc[c] = "logged_request"
    /\ ~EarlyExitTaken(call[c])
    /\ IF StubCallableRaises(dendrite)
       THEN /\ RaiseInTry(c, StubCallableError)
            /\ hist' = [hist EXCEPT ![c].in_try = TRUE, ![c].raised = StubCallableError]
            /\ UNCHANGED fut
       ELSE \/ \* receptor.sign() raises: the stub is never called
               /\ RaiseInTry(c, SignError)
               /\ hist' = [hist EXCEPT ![c].in_try = TRUE, ![c].raised = SignError]
               /\ UNCHANGED fut
            \/ \* the stub call itself raises grpc.RpcError
               \E d \in ErrorDetails :
                 /\ RaiseInTry(c, RpcError(UNAVAILABLE, d))
                 /\ hist' = [hist EXCEPT ![c].in_try = TRUE,
                                         ![c].stub_calls = @ + 1,
                                         ![c].raised = RpcError(UNAVAILABLE, d)]
                 /\ UNCHANGED fut
            \/ \* the stub returns the call's future; the peer will answer or not
               \E p \in {"responsive", "silent"} :
                 /\ fut' = [fut EXCEPT ![c].state = "pending"]
                 /\ hist' = [hist EXCEPT ![c].in_try = TRUE,
                                         ![c].stub_calls = @ + 1,
                                         ![c].peer = p,
                                         ![c].dispatch_at = clock]
                 /\ pc' = [pc EXCEPT ![c] = "dispatched"]
                 /\ UNCHANGED exc
    /\ UNCHANGED <<clock, dendrite, running, call, log, result>>

(* await asyncio.wait_for( asyncio_future, timeout ): the coroutine suspends *)
Await(c) ==
    /\ pc[c] = "dispatched"
    /\ pc' = [pc EXCEPT ![c] = "awaiting"]
    /\ hist' = [hist EXCEPT ![c].await_at = clock]
    /\ running' = {}
    /\ UNCHANGED <<clock, dendrite, call, exc, fut, log, result>>

(* the peer's reply arrives and completes the future *)
TransportReply(c) ==
    /\ fut[c].state = "pending"
    /\ hist[c].peer = "responsive"
    /\ \E p \in Responses :
         /\ fut' = [fut EXCEPT ![c] = [state |-> "done", value |-> p, exc |-> NoExc]]
         /\ hist' = [hist EXCEPT ![c].replied = p]
    /\ UNCHANGED <<clock, dendrite, running, call, pc, exc, log, result>>

(* the transport fails the call with a status code *)
TransportError(c) ==
    /\ fut[c].state = "pending"
    /\ hist[c].peer = "responsive"
    /\ \E d \in ErrorDetails :
         fut' = [fut EXCEPT ![c] = [state |-> "done", value |-> None,
                                    exc |-> RpcError(UNAVAILABLE, d)]]
    /\ UNCHANGED <<clock, dendrite, running, call, pc, exc, log, hist, result>>

(* the transport's own deadline (the timeout argument of the stub call)     *)
(* expires: it fails the call with DEADLINE_EXCEEDED                        *)
TransportDeadline(c) ==
    /\ fut[c].state = "pending"
    /\ TransportExpired(call[c], hist[c].dispatch_at, clock)
    /\ fut' = [fut EXCEPT ![c] = [state |-> "done", value |-> None,
                                  exc |-> RpcError(DEADLINE_EXCEEDED, "Deadline Exceeded")]]
    /\ UNCHANGED <<clock, dendrite, running, call, pc, exc, log, hist, result>>

(* wait_for resumes the coroutine: with the future's result or exception if *)
(* it is done, else with asyncio.TimeoutError once the deadline has passed  *)
(* (the future is cancelled)                                                *)
(* A future done by the time the coroutine runs again wins over the timer,  *)
(* as in asyncio.wait_for of Python 3.8 to 3.11.                            *)
Resume(c) ==
    /\ pc[c] = "awaiting"
    /\ running = {}
    /\ running' = {c}
    /\ IF fut[c].state = "done"
       THEN IF fut[c].exc = NoExc
            THEN /\ call' = WriteCall(call, c, StoreResponseProto(call[c], fut[c].value))
                 /\ UNCHANGED hist
                 /\ pc' = [pc EXCEPT ![c] = "received"]
                 /\ UNCHANGED <<exc, fut>>
            ELSE /\ RaiseInTry(c, fut[c].exc)
                 /\ hist' = [hist EXCEPT ![c].raised = fut[c].exc]
                 /\ UNCHANGED <<call, fut>>
       ELSE /\ WaitForExpired(call[c], hist[c].await_at, clock)
            /\ RaiseInTry(c, TimeoutError)
            /\ hist' = [hist EXCEPT ![c].raised = TimeoutError]
            /\ fut' = [fut EXCEPT ![c].state = "cancelled"]
            /\ UNCHANGED call
    /\ UNCHANGED <<clock, dendrite, log, result>>

(* the task is cancelled while suspended: CancelledError is thrown into the *)
(* coroutine at the await                                                   *)
Cancel(c) ==
    /\ pc[c] = "awaiting"
    /\ running = {}
    /\ running' = {c}
    /\ RaiseInTry(c, CancelledError)
    /\ hist' = [hist EXCEPT ![c].raised = CancelledError]
    /\ fut' = [fut EXCEPT ![c].state = "cancelled"]
    /\ UNCHANGED <<clock, dendrite, call, log, result>>

(* forward_call.from_forward_response_proto( forward_call.response_proto ) *)
Decode(c) ==
    /\ pc[c] = "received"
    /\ \/ /\ hist' = [hist EXCEPT ![c].decode_calls = @ + 1, ![c].decode = "ok"]
          /\ pc' = [pc EXCEPT ![c] = "finally"]
          /\ UNCHANGED exc
       \/ /\ hist' = [hist EXCEPT ![c].decode_calls = @ + 1, ![c].decode = "failed",
                                  ![c].raised = DecodeError]
          /\ RaiseInTry(c, DecodeError)
    /\ UNCHANGED <<clock, dendrite, running, call, fut, log, result>>

(* except grpc.RpcError / except asyncio.TimeoutError / except Exception *)
Except(c) ==
    /\ pc[c] = "except"
    /\ call' = WriteCall(call, c, ExceptClauses(call[c], exc[c]))
    /\ exc' = [exc EXCEPT ![c] = IF Caught(exc[c]) THEN NoExc ELSE @]
    /\ pc' = [pc EXCEPT ![c] = AfterExcept(exc[c])]
    /\ UNCHANGED <<clock, dendrite, running, fut, log, hist, result>>

(* finally: rpc_log( is_response = True, ... ) *)
ResponseLog(c) ==
    RpcLog(TRUE, call[c].response_code, clock - call[c].start_time,
           InputsShape,
           IF OutputsShapeWanted(call[c]) THEN OutputsShape ELSE None,
           call[c].response_message, SynapseName(dendrite))

LogResponse(c) ==
    /\ pc[c] = "finally"
    /\ \/ \* get_inputs_shape raises
          /\ Exit(c, Raised(ShapeNotImplemented))
          /\ hist' = [hist EXCEPT ![c].log_raised = ShapeNotImplemented]
          /\ UNCHANGED log
       \/ \* get_outputs_shape raises
          /\ OutputsShapeWanted(call[c])
          /\ Exit(c, Raised(ShapeNotImplemented))
          /\ hist' = [hist EXCEPT ![c].log_raised = ShapeNotImplemented,
                                  ![c].outputs_shape_calls = @ + 1]
          /\ UNCHANGED log
       \/ \* the sink raises
          /\ log' = [log EXCEPT ![c] = Append(@, ResponseLog(c))]
          /\ hist' = [hist EXCEPT ![c].log_raised = SinkError,
                                  ![c].outputs_shape_calls =
                                      IF OutputsShapeWanted(call[c]) THEN @ + 1 ELSE @]
          /\ Exit(c, Raised(SinkError))
       \/ /\ log' = [log EXCEPT ![c] = Append(@, ResponseLog(c))]
          /\ hist' = [hist EXCEPT ![c].outputs_shape_calls =
                                      IF OutputsShapeWanted(call[c]) THEN @ + 1 ELSE @]
          /\ pc' = [pc EXCEPT ![c] = "logged_response"]
          /\ UNCHANGED <<running, result>>
    /\ exc' = [exc EXCEPT ![c] = NoExc]
    /\ UNCHANGED <<clock, dendrite, call, fut>>

(* forward_call.end_time = time.time(); return forward_call (inside finally: *)
(* the return discards an exception still in flight)                         *)
Finish(c) ==
    /\ pc[c] = "logged_response"
    /\ call' = WriteCall(call, c, SetEndTime(call[c], clock))
    /\ hist' = [hist EXCEPT ![c].end_writes = @ + 1]
    /\ exc' = [exc EXCEPT ![c] = NoExc]
    /\ Exit(c, Returned(c))
    /\ UNCHANGED <<clock, dendrite, fut, log>>

Next ==
    \/ Tick
    \/ \E c \in Calls :
         \/ Construct(c) \/ Forward(c) \/ Bind(c) \/ Encode(c) \/ LogRequest(c)
         \/ EarlyExit(c) \/ Dispatch(c) \/ Await(c)
         \/ TransportReply(c) \/ TransportError(c) \/ TransportDeadline(c)
         \/ Resume(c) \/ Cancel(c) \/ Decode(c) \/ Except(c)
         \/ LogResponse(c) \/ Finish(c)

Spec == Init /\ [][Next]_vars

(* ------------------------------------------------------- resubmission *)
(* the caller hands a returned ForwardCall to async_forward a second time:  *)
(* nothing of the object is reset, async_forward starts over on it          *)
Resubmitters == {1}
Resubmit(c) ==
    /\ pc[c] = "exited"
    /\ result[c] = Returned(c)
    /\ hist[c].resubmits < MaxResubmits
    /\ pc' = [pc EXCEPT ![c] = "constructed"]
    /\ hist' = [hist EXCEPT ![c] = [NoHist EXCEPT !.via = "async_forward",
                                                  !.resubmits = hist[c].resubmits + 1,
                                                  !.prior = call[c]]]
    /\ result' = [result EXCEPT ![c] = NoResult]
    /\ log' = [log EXCEPT ![c] = <<>>]
    /\ fut' = [fut EXCEPT ![c] = NoFuture]
    /\ UNCHANGED <<clock, dendrite, running, call, exc>>

(* one ForwardCall, submitted and resubmitted *)
NextResubmit ==
    \/ Tick
    \/ \E c \in Resubmitters :
         \/ Construct(c) \/ Forward(c) \/ Bind(c) \/ Encode(c) \/ LogRequest(c)
         \/ EarlyExit(c) \/ Dispatch(c) \/ Await(c)
         \/ TransportReply(c) \/ TransportError(c) \/ TransportDeadline(c)
         \/ Resume(c) \/ Cancel(c) \/ Decode(c) \/ Except(c)
         \/ LogResponse(c) \/ Finish(c) \/ Resubmit(c)

SpecResubmit == Init /\ [][NextResubmit]_vars

(* ============================ properties ================================ *)
Exited(c) == pc[c] = "exited"
(* async_forward has begun on the call: its first statement binds the endpoint *)
Entered(c) == call[c].endpoint = SelfEndpoint
ReturnedTo(c) == Exited(c) /\ result[c].kind = "returned"
RequestEvents(c) == {i \in DOMAIN log[c] : ~log[c][i].is_response}
ResponseEvents(c) == {i \in DOMAIN log[c] : log[c][i].is_response}
Contains(msg, token) == \E i \in DOMAIN msg : msg[i] = token
InFinally(c) == pc[c] \in {"finally", "logged_response", "exited"}

(* C1: every exit of async_forward leaves end_time set, written exactly     *)
(* once, by the exiting step and to a value not below start_time.           *)
(* Fails: an exception raised while the request or response log record is   *)
(* built or delivered leaves the finally block before end_time is written.  *)
C1_EndTimeSetOnEveryExit ==
    \A c \in Calls :
        /\ Entered(c) /\ ~Exited(c) => hist[c].end_writes = 0
        /\ Entered(c) /\ Exited(c) =>
             /\ hist[c].end_writes = 1
             /\ call[c].end_time # 0
             /\ call[c].end_time >= call[c].start_time

(* C2: once the response phase has begun, async_forward ends by returning   *)
(* the call state, never by an exception, and a failure raised in the try   *)
(* block is recorded in response_code / response_message.                   *)
(* Fails: an exception raised by the response log leaves async_forward.     *)
C2_ResponsePhaseNeverRaises ==
    \A c \in Calls :
        hist[c].in_try /\ Exited(c) =>
            /\ result[c] = Returned(c)
            /\ IsException(hist[c].raised) =>
                 /\ call[c].response_code # Success
                 /\ call[c].response_message # SuccessMessage

(* C3: when to_forward_request_proto raises, the call ends at the request   *)
(* phase: request_code is RequestSerializationException, request_message is *)
(* str(e), the stub is never called, no response record is logged,          *)
(* response_proto stays None and response_code / response_message keep      *)
(* their defaults.                                                          *)
C3_EncodeFailureEndsAtRequestPhase ==
    \A c \in Calls :
        hist[c].encode = "failed" =>
            /\ call[c].request_code = RequestSerializationException
            /\ call[c].request_message = StrOf(hist[c].encode_exc)
            /\ pc[c] \in {"encoded", "logged_request", "exited"}
            /\ ~hist[c].in_try
            /\ hist[c].stub_calls = 0
            /\ fut[c] = NoFuture
            /\ ResponseEvents(c) = {}
            /\ call[c].response_proto = None
            /\ call[c].response_code = Success
            /\ call[c].response_message = SuccessMessage

C3_Witness ==
    \E c \in Calls :
        /\ hist[c].encode = "failed"
        /\ ReturnedTo(c)
        /\ call[c].end_time # 0
        /\ Cardinality(RequestEvents(c)) = 1

(* C4: a call whose peer never answers and whose task is not cancelled      *)
(* returns with response_code Timeout and the timeout message, never with a *)
(* status code of the transport.                                            *)
(* Fails: the stub was given the same timeout, and when its deadline fires  *)
(* first the grpc.RpcError clause records DEADLINE_EXCEEDED.                *)
C4_SilentPeerEndsInTimeout ==
    \A c \in Calls :
        ReturnedTo(c) /\ hist[c].peer = "silent" /\ hist[c].raised # CancelledError =>
            /\ call[c].response_code = Timeout
            /\ call[c].response_message = TimeoutMessage(call[c].timeout)
            /\ call[c].response_code \notin StatusCodes

(* C5: a call that has ended logged exactly one request record, and logged  *)
(* exactly one response record if the stub was called and none otherwise.   *)
(* Fails: get_inputs_shape raising in the request log ends the call with no *)
(* request record; a signer or stub-selector failure is logged as a         *)
(* response although the stub was never called.                             *)
C5_OneLogEventPerPhase ==
    \A c \in Calls :
        Entered(c) /\ Exited(c) =>
            /\ Cardinality(RequestEvents(c)) = 1
            /\ Cardinality(ResponseEvents(c)) = (IF hist[c].stub_calls > 0 THEN 1 ELSE 0)

(* C6 as stated: on a returned call state response_proto is set iff         *)
(* response_code is Success.  Fails on the early exit (Success, None), on a *)
(* decode failure (UnknownException, reply kept) and on cancellation.       *)
C6_ResponseProtoIffSuccess ==
    \A c \in Calls :
        ReturnedTo(c) =>
            (call[c].response_proto # None <=> call[c].response_code = Success)

(* C6 amended: on a returned call state, Success implies a stored reply     *)
(* unless the call ended at the request phase or was cancelled at the       *)
(* await, and a stored reply implies Success unless decoding it failed, in  *)
(* which case the code is UnknownException and the reply is kept.           *)
C6_ResponseProtoIffSuccessExceptEarlyExitCancelDecode ==
    \A c \in Calls :
        ReturnedTo(c) =>
            /\ ( /\ call[c].response_code = Success
                 /\ call[c].request_code = Success
                 /\ hist[c].raised # CancelledError )
               => call[c].response_proto # None
            /\ (call[c].response_proto # None /\ hist[c].decode # "failed")
               => call[c].response_code = Success
            /\ (call[c].response_proto # None /\ hist[c].decode = "failed")
               => call[c].response_code = UnknownException

C6_Witness ==
    \E c \in Calls :
        /\ ReturnedTo(c)
        /\ call[c].response_proto # None
        /\ call[c].response_code = UnknownException
        /\ hist[c].decode = "failed"

(* C7 as stated: in every state of a constructed call state request_proto   *)
(* is set iff request_code is Success.  Fails from construction until the   *)
(* encode step: the code defaults to Success while request_proto is None.   *)
C7_RequestProtoIffSuccess ==
    \A c \in Calls :
        pc[c] # "none" =>
            (call[c].request_proto # None <=> call[c].request_code = Success)

(* C7 amended: once the encode step of a call state submitted once has run, *)
(* request_proto is set iff request_code is Success; before that the code   *)
(* is the default Success and request_proto is None.                        *)
C7_RequestProtoIffSuccessAfterEncode ==
    \A c \in Calls :
        IF hist[c].encode = "none"
        THEN call[c].request_code = Success /\ call[c].request_proto = None
        ELSE call[c].request_proto # None <=> call[c].request_code = Success

C7_Witness ==
    \E c \in Calls :
        /\ hist[c].encode = "ok"
        /\ Exited(c)
        /\ call[c].request_proto = RequestProto
        /\ call[c].request_code = Success

(* C8: when the stub call or the await raises grpc.RpcError, from the       *)
(* except clause on response_code is the error's code() and the message     *)
(* contains that code and the error's details().                            *)
C8_RpcErrorCodeAndDetailsRecorded ==
    \A c \in Calls :
        InFinally(c) /\ IsRpcError(hist[c].raised) =>
            /\ call[c].response_code = hist[c].raised.code
            /\ Contains(call[c].response_message, hist[c].raised.code)
            /\ Contains(call[c].response_message, hist[c].raised.details)

C8_Witness ==
    \E c \in Calls :
        /\ ReturnedTo(c)
        /\ IsRpcError(hist[c].raised)
        /\ call[c].response_code = UNAVAILABLE
        /\ hist[c].dispatch_at # 0

(* C9: once a reply P delivered by the transport has been awaited and       *)
(* decoded, response_code is Success, the message is 'Success' and          *)
(* response_proto is P; a call that returns returns the call state it was   *)
(* given, with end_time set.                                                *)
C9_ReplyDecodedIsSuccess ==
    \A c \in Calls :
        /\ hist[c].replied # None /\ hist[c].decode = "ok" =>
             /\ call[c].response_code = Success
             /\ call[c].response_message = SuccessMessage
             /\ call[c].response_proto = hist[c].replied
        /\ ReturnedTo(c) => result[c].obj = c /\ call[c].end_time # 0

C9_Witness ==
    \E c \in Calls :
        /\ ReturnedTo(c)
        /\ hist[c].replied \in Responses
        /\ hist[c].decode = "ok"
        /\ call[c].response_proto = hist[c].replied

(* C10: a call made through TextSeq2SeqDendrite.forward reaches             *)
(* async_forward and ends by returning its call state with end_time set.    *)
(* Fails: forward passes forward_call = ... to _forward( call_state ), a    *)
(* TypeError raised before async_forward is entered.                        *)
C10_ForwardReturnsTerminalCallState ==
    \A c \in Calls :
        hist[c].via = "forward" /\ Exited(c) =>
            /\ Entered(c)
            /\ result[c] = Returned(c)
            /\ call[c].end_time # 0

(* C11: a call whose request or response log raised (the sink, or a shape   *)
(* descriptor while the record is built) still ends by returning its call   *)
(* state with end_time set.                                                 *)
(* Fails: the log runs inside the finally block ahead of the end_time       *)
(* assignment and the return; its exception leaves async_forward.           *)
C11_LogFailureDoesNotPreventTermination ==
    \A c \in Calls :
        hist[c].log_raised # NoExc /\ Exited(c) =>
            /\ result[c] = Returned(c)
            /\ call[c].end_time # 0

(* the call state call c would end with had it run alone with the same      *)
(* timeout, start and end time, encode outcome, reply and exception         *)
Alone(c) ==
    LET bound == BindEndpoint(ForwardCallInit(call[c].timeout, call[c].start_time))
        encoded == IF hist[c].encode = "failed"
                   THEN OnRequestException(bound, hist[c].encode_exc)
                   ELSE StoreRequestProto(bound, RequestProto)
        received == IF hist[c].decode # "none"
                    THEN StoreResponseProto(encoded, hist[c].replied)
                    ELSE encoded
        classified == IF hist[c].raised # NoExc
                      THEN ExceptClauses(received, hist[c].raised)
                      ELSE received
    IN  SetEndTime(classified, call[c].end_time)

(* C12: with two calls interleaved on the one Dendrite, a step changes a    *)
(* ForwardCall only if it is a step of that call, no step changes the       *)
(* Dendrite, and every returned call state is the one the call would have   *)
(* produced alone with the same outcomes.                                   *)
C12_ConcurrentCallsAreIndependent ==
    /\ [](\A c \in Calls : ReturnedTo(c) => call[c] = Alone(c))
    /\ [][ /\ dendrite' = dendrite
           /\ \A c \in Calls : call'[c] # call[c] => pc'[c] # pc[c] ]_vars

(* both calls were in flight at once and both returned, with different outcomes *)
C12_Witness ==
    /\ \A c \in Calls : ReturnedTo(c) /\ hist[c].stub_calls = 1
    /\ hist[1].await_at # 0 /\ hist[2].await_at # 0
    /\ call[1].response_code # call[2].response_code

(* the positions of a call in the order of the source text *)
PhaseOrder ==
    << "none", "constructed", "bound", "encoded", "logged_request",
       "dispatched", "awaiting", "received", "except", "finally",
       "logged_response", "exited" >>
PhaseRank(p) == CHOOSE i \in DOMAIN PhaseOrder : PhaseOrder[i] = p
Before(p, q) == PhaseRank(p) < PhaseRank(q)
(* the call is not on the event loop: not begun, suspended or ended *)
Suspended(c) == c \notin running
SuspensionPoints == {"none", "constructed", "awaiting", "exited"}

(* C13 as stated: on the path past the early exit every phase runs, none    *)
(* skipped: the stub is called, the await is reached and decode runs.       *)
(* Fails: a raise in dispatch or at the await jumps to the except clauses,  *)
(* skipping the phases between.                                             *)
C13_NoPhaseSkippedPastEarlyExit ==
    \A c \in Calls :
        hist[c].in_try /\ ReturnedTo(c) =>
            /\ hist[c].stub_calls = 1
            /\ hist[c].await_at # 0
            /\ hist[c].decode_calls = 1
            /\ Cardinality(ResponseEvents(c)) = 1
            /\ hist[c].end_writes = 1

(* C13, amended: a call only moves forward through bind, encode, request    *)
(* log, (early exit or) dispatch, await, decode, classify, response log,    *)
(* end_time; a phase has begun only if the earlier ones it depends on have  *)
(* finished; the path past the early exit is taken exactly when encode      *)
(* succeeded; on it phases are skipped only after a raise in the try block; *)
(* the call is off the event loop only at the await.                        *)
C13_PhasesInOrderSkippedOnlyAfterRaise ==
    /\ [][ \A c \in Calls : pc'[c] # pc[c] => Before(pc[c], pc'[c]) ]_vars
    /\ [](\A c \in Calls :
            /\ Before("bound", pc[c]) /\ Entered(c) => hist[c].encode # "none"
            /\ Before("logged_request", pc[c]) /\ ~Exited(c) =>
                  /\ Cardinality(RequestEvents(c)) = 1
                  /\ hist[c].in_try
            /\ hist[c].in_try =>
                  /\ Before("logged_request", pc[c])
                  /\ hist[c].encode = "ok"
                  /\ Cardinality(RequestEvents(c)) = 1
            /\ hist[c].stub_calls > 0 => hist[c].in_try
            /\ hist[c].await_at # 0 => hist[c].stub_calls = 1
            /\ hist[c].decode_calls > 0 =>
                  hist[c].await_at # 0 /\ call[c].response_proto # None
            /\ ResponseEvents(c) # {} => hist[c].in_try /\ InFinally(c) /\ pc[c] # "finally"
            /\ hist[c].end_writes > 0 => Exited(c)
            /\ hist[c].in_try /\ ReturnedTo(c) /\ hist[c].raised = NoExc =>
                  /\ hist[c].stub_calls = 1
                  /\ hist[c].await_at # 0
                  /\ hist[c].decode_calls = 1
                  /\ Cardinality(ResponseEvents(c)) = 1
                  /\ hist[c].end_writes = 1
            /\ Suspended(c) /\ Entered(c) => pc[c] \in SuspensionPoints
            /\ Suspended(c) /\ Entered(c) /\ ~Exited(c) => pc[c] = "awaiting")

C13_Witness ==
    /\ \E c \in Calls :
          /\ ReturnedTo(c) /\ hist[c].decode = "ok"
          /\ Cardinality(ResponseEvents(c)) = 1
    /\ \E c \in Calls :
          /\ ReturnedTo(c) /\ hist[c].raised = SignError
          /\ hist[c].stub_calls = 0

(* C14: one call invokes the stub at most once and ends with one outcome:   *)
(* after asyncio.TimeoutError, or any other raise in the try block, the     *)
(* stub is not called again, the call goes on to the finally block, and     *)
(* once the entry point has ended nothing of the call changes any more.     *)
C14_AtMostOneStubCallOneOutcome ==
    /\ [](\A c \in Calls :
            /\ hist[c].stub_calls <= 1
            /\ hist[c].raised # NoExc =>
                  /\ pc[c] \in {"except", "finally", "logged_response", "exited"}
                  /\ fut[c].state # "pending"
            /\ hist[c].raised = TimeoutError =>
                  /\ hist[c].stub_calls = 1
                  /\ fut[c].state = "cancelled"
            /\ Exited(c) <=> result[c] # NoResult
            /\ Cardinality(ResponseEvents(c)) <= 1
            /\ hist[c].end_writes <= 1)
    /\ [][ \A c \in Calls :
              /\ hist[c].raised # NoExc => hist'[c].stub_calls = hist[c].stub_calls
              /\ Exited(c) =>
                    /\ call'[c] = call[c] /\ result'[c] = result[c]
                    /\ pc'[c] = pc[c] /\ log'[c] = log[c]
                    /\ hist'[c] = hist[c] ]_vars

C14_Witness ==
    \E c \in Calls :
        /\ ReturnedTo(c)
        /\ call[c].response_code = Timeout
        /\ hist[c].stub_calls = 1
        /\ Cardinality(ResponseEvents(c)) = 1

(* an exception of the Exception hierarchy that is neither grpc.RpcError    *)
(* nor asyncio.TimeoutError                                                 *)
IsOtherException(e) == IsException(e) /\ ~IsRpcError(e) /\ ~IsTimeoutError(e)

(* C15: once the except clauses have run, a raise in the try block that is  *)
(* neither grpc.RpcError nor asyncio.TimeoutError (the selector, the        *)
(* signer, decode) has left response_code UnknownException and              *)
(* response_message str(e); and each of the three failure codes stands for  *)
(* its own cause only: a status code for grpc.RpcError, Timeout for         *)
(* asyncio.TimeoutError, UnknownException for the rest.                     *)
C15_OtherExceptionIsUnknownException ==
    \A c \in Calls :
        InFinally(c) /\ hist[c].in_try =>
            /\ IsOtherException(hist[c].raised) =>
                  /\ call[c].response_code = UnknownException
                  /\ call[c].response_message = StrOf(hist[c].raised)
            /\ call[c].response_code = UnknownException <=> IsOtherException(hist[c].raised)
            /\ call[c].response_code = Timeout <=> IsTimeoutError(hist[c].raised)
            /\ call[c].response_code \in StatusCodes <=> IsRpcError(hist[c].raised)
            /\ call[c].response_code = Success <=> ~IsException(hist[c].raised)

C15_Witness ==
    /\ \E c \in Calls :
          /\ ReturnedTo(c) /\ hist[c].raised = DecodeError
          /\ call[c].response_code = UnknownException
    /\ \E c \in Calls :
          /\ ReturnedTo(c) /\ hist[c].raised = SignError
          /\ call[c].response_message = StrOf(SignError)

(* C16: every response record carries the inputs shape, and the outputs     *)
(* shape is evaluated and reported only when response_code is Success and   *)
(* from_forward_response_proto has completed; otherwise the record carries  *)
(* None and get_outputs_shape is not evaluated.                             *)
(* Fails: a call cancelled at the await reaches the finally block with      *)
(* response_code still at its default Success, so get_outputs_shape is      *)
(* evaluated though decode never ran.                                       *)
C16_OutputsShapeOnlyAfterDecode ==
    \A c \in Calls :
        /\ \A i \in ResponseEvents(c) :
              /\ log[c][i].inputs = InputsShape
              /\ log[c][i].outputs # None <=>
                    call[c].response_code = Success /\ hist[c].decode = "ok"
        /\ hist[c].outputs_shape_calls > 0 =>
              call[c].response_code = Success /\ hist[c].decode = "ok"

(* C17: from_forward_response_proto is called at most once per call, and    *)
(* only when the await has handed back the peer's reply and the reply has   *)
(* been stored in response_proto: never after an encode failure, and never  *)
(* after grpc.RpcError, asyncio.TimeoutError or a cancellation.             *)
C17_DecodeOnceOnlyOnStoredReply ==
    \A c \in Calls :
        /\ hist[c].decode_calls <= 1
        /\ hist[c].decode_calls = 0 <=> hist[c].decode = "none"
        /\ hist[c].decode_calls = 1 =>
              /\ hist[c].encode = "ok"
              /\ hist[c].stub_calls = 1 /\ hist[c].await_at # 0
              /\ fut[c].state = "done" /\ fut[c].exc = NoExc
              /\ hist[c].replied \in Responses
              /\ call[c].response_proto = hist[c].replied
              /\ hist[c].raised \in {NoExc, DecodeError}
        /\ ( \/ hist[c].encode = "failed"
             \/ IsRpcError(hist[c].raised)
             \/ IsTimeoutError(hist[c].raised)
             \/ hist[c].raised = CancelledError )
           => hist[c].decode_calls = 0 /\ call[c].response_proto = None

C17_Witness ==
    /\ \E c \in Calls :
          /\ Exited(c) /\ hist[c].decode_calls = 1 /\ hist[c].decode = "failed"
    /\ \E c \in Calls :
          /\ Exited(c) /\ IsRpcError(hist[c].raised) /\ hist[c].replied = None
          /\ hist[c].await_at # 0

(* C18: a call that ends with response_code Timeout has end_time -          *)
(* start_time >= timeout: asyncio.TimeoutError is raised no earlier than    *)
(* timeout after the await began, which is no earlier than construction.    *)
C18_TimeoutElapsedAtLeastTimeout ==
    \A c \in Calls :
        /\ call[c].response_code = Timeout =>
              /\ hist[c].await_at >= call[c].start_time
              /\ clock - hist[c].await_at >= call[c].timeout
        /\ ReturnedTo(c) /\ call[c].response_code = Timeout =>
              call[c].end_time - call[c].start_time >= call[c].timeout

C18_Witness ==
    \E c \in Calls :
        /\ ReturnedTo(c)
        /\ call[c].response_code = Timeout
        /\ call[c].end_time = call[c].start_time + call[c].timeout

(* C19: a call cancelled at the await still logs the response record, sets  *)
(* end_time and returns the call state, with response_code at its default   *)
(* Success and response_proto None; CancelledError does not reach the       *)
(* caller.                                                                  *)
(* Fails: as for C11, an exception raised by the response log leaves the    *)
(* finally block before end_time is written and the call state returned;    *)
(* on this path the log evaluates get_outputs_shape on outputs that were    *)
(* never decoded (C16).                                                     *)
C19_CancelledCallStillReturns ==
    \A c \in Calls :
        hist[c].raised = CancelledError =>
            /\ call[c].response_code = Success
            /\ call[c].response_proto = None
            /\ Exited(c) =>
                  /\ result[c] = Returned(c)
                  /\ call[c].end_time # 0
                  /\ Cardinality(ResponseEvents(c)) = 1

(* C20: no step of async_forward writes Success to request_code or          *)
(* response_code or sets a stored request_proto / response_proto back to    *)
(* None; so on a ForwardCall submitted again a non-Success request_code of  *)
(* the earlier submission stays and forces the early exit even when encode  *)
(* now succeeds, and a non-Success response_code of the earlier submission  *)
(* stays non-Success, and is the very code returned when nothing is raised  *)
(* in the try block this time.                                              *)
C20_StaleCodesPersistOnResubmission ==
    /\ [][ \A c \in Calls :
              /\ call'[c].request_code = Success => call[c].request_code = Success
              /\ call'[c].response_code = Success => call[c].response_code = Success
              /\ call[c].request_proto # None => call'[c].request_proto # None
              /\ call[c].response_proto # None => call'[c].response_proto # None ]_vars
    /\ [](\A c \in Calls :
            hist[c].resubmits > 0 =>
                /\ hist[c].prior.request_code # Success =>
                      /\ call[c].request_code = hist[c].prior.request_code
                      /\ ~hist[c].in_try /\ hist[c].stub_calls = 0
                      /\ pc[c] \in {"constructed", "bound", "encoded",
                                     "logged_request", "exited"}
                /\ hist[c].prior.response_code # Success =>
                      /\ call[c].response_code # Success
                      /\ ~IsException(hist[c].raised) =>
                            call[c].response_code = hist[c].prior.response_code
                      /\ hist[c].outputs_shape_calls = 0)

C20_Witness ==
    \E c \in Calls :
        /\ hist[c].resubmits = 1
        /\ hist[c].prior.response_code = Timeout
        /\ hist[c].decode = "ok"
        /\ ReturnedTo(c)
        /\ call[c].response_proto \in Responses
        /\ call[c].response_code = Timeout
====
